---- MODULE Spec2Model ----
(***************************************************************************)
(* Page-replacement simulator: src/utils/algorithms.ts (runSimulation and  *)
(* parseReferenceString) as called by src/App.tsx (handleSimulate), which  *)
(* runs the four policies one after the other on the same input.           *)
(*                                                                         *)
(* Arrays of the code (currentFrames, referenceBits) are functions on      *)
(* 0..frameCount-1, so slot indices are the code's indices.  pages and     *)
(* steps are sequences: the code's pages[i] is pages[i+1] here.            *)
(* The explanation string of a step is display text and is not modelled.   *)
(* The last section is the playback state of src/App.tsx (SpecPlayback),   *)
(* which reads of a simulation only the number of steps of its result.     *)
(***************************************************************************)
EXTENDS Integers, Sequences, FiniteSets, TLC

\* ---------------------------------------------------------------- bounds
MaxLen == 4        \* longest enumerated reference text, in tokens
MaxPage == 3       \* enumerated page tokens are "0" .. MaxPage
MaxFrames == 3     \* enumerated frame counts are 0 .. MaxFrames
MaxTokLen == 2     \* longest enumerated text that mixes in malformed tokens
MaxLenTwo == 3     \* longest enumerated reference text when two calls are interleaved

\* ------------------------------------------------------- encoded values
\* null of (number | null): pages are filtered to n >= 0, so -1 is no page
Null == -1

Digits == <<"0", "1", "2", "3", "4", "5", "6", "7", "8", "9">>

IsDigit(c) == \E i \in 1..10 : Digits[i] = c

DigitVal(c) == (CHOOSE i \in 1..10 : Digits[i] = c) - 1

\* ------------------------------------------------- parseReferenceString
\* A token is the sequence of its characters; the reference text is the
\* sequence of tokens that split(',') yields (never empty: "" splits to [""]).

RECURSIVE TrimStart(_)
TrimStart(s) ==
    IF Len(s) > 0 /\ Head(s) = " " THEN TrimStart(Tail(s)) ELSE s

RECURSIVE TrimEnd(_)
TrimEnd(s) ==
    IF Len(s) > 0 /\ s[Len(s)] = " " THEN TrimEnd(SubSeq(s, 1, Len(s) - 1)) ELSE s

Trim(s) == TrimEnd(TrimStart(s))

RECURSIVE DigitsValue(_, _)
DigitsValue(s, acc) ==
    IF Len(s) = 0 THEN acc ELSE DigitsValue(Tail(s), 10 * acc + DigitVal(Head(s)))

AllDigits(s) == Len(s) > 0 /\ \A i \in 1..Len(s) : IsDigit(s[i])

HexDigits == <<"a", "b", "c", "d", "e", "f">>

IsHexDigit(c) == IsDigit(c) \/ \E i \in 1..6 : HexDigits[i] = c

HexVal(c) == IF IsDigit(c) THEN DigitVal(c) ELSE 9 + (CHOOSE i \in 1..6 : HexDigits[i] = c)

RECURSIVE HexValue(_, _)
HexValue(s, acc) ==
    IF Len(s) = 0 THEN acc ELSE HexValue(Tail(s), 16 * acc + HexVal(Head(s)))

\* "0x" followed by hexadecimal digits
IsHexLiteral(s) ==
    /\ Len(s) >= 3
    /\ s[1] = "0"
    /\ s[2] = "x"
    /\ \A i \in 3..Len(s) : IsHexDigit(s[i])

RECURSIVE Pow10(_)
Pow10(k) == IF k = 0 THEN 1 ELSE 10 * Pow10(k - 1)

\* the digits of an exponent part, after its optional "+"
ExponentDigits(t) == IF Len(t) > 1 /\ Head(t) = "+" THEN Tail(t) ELSE t

\* the position of the "e" that splits s into digits "e" exponent, 0 if there is none
ExponentAt(s) ==
    LET K == {k \in 2..(Len(s) - 1) :
                /\ s[k] = "e"
                /\ AllDigits(SubSeq(s, 1, k - 1))
                /\ AllDigits(ExponentDigits(SubSeq(s, k + 1, Len(s))))}
    IN  IF K = {} THEN 0 ELSE CHOOSE k \in K : TRUE

\* an unsigned decimal literal without a fraction part: digits, or digits "e" exponent
UnsignedDecimal(s) ==
    IF AllDigits(s) THEN [nan |-> FALSE, val |-> DigitsValue(s, 0)]
    ELSE IF ExponentAt(s) # 0
    THEN [nan |-> FALSE,
          val |-> DigitsValue(SubSeq(s, 1, ExponentAt(s) - 1), 0)
                    * Pow10(DigitsValue(ExponentDigits(SubSeq(s, ExponentAt(s) + 1, Len(s))), 0))]
    ELSE [nan |-> TRUE, val |-> 0]

\* Number(s) for a trimmed, non-empty token written with spaces, signs, digits
\* and the letters a-f and x, and whose value is an integer: a hexadecimal
\* literal, or an optionally signed decimal literal with an optional
\* non-negative exponent; NaN otherwise.
Number(s) ==
    IF IsHexLiteral(s) THEN [nan |-> FALSE, val |-> HexValue(SubSeq(s, 3, Len(s)), 0)]
    ELSE IF Len(s) > 1 /\ Head(s) = "-"
    THEN [nan |-> UnsignedDecimal(Tail(s)).nan, val |-> 0 - UnsignedDecimal(Tail(s)).val]
    ELSE IF Len(s) > 1 /\ Head(s) = "+" THEN UnsignedDecimal(Tail(s))
    ELSE UnsignedDecimal(s)

KeepToken(s) == s # <<>> /\ ~Number(s).nan

RECURSIVE parseReferenceString(_)
parseReferenceString(input) ==
    IF Len(input) = 0 THEN <<>>
    ELSE LET s == Trim(Head(input))
             rest == parseReferenceString(Tail(input))
         IN  IF KeepToken(s) /\ Number(s).val >= 0
             THEN <<Number(s).val>> \o rest
             ELSE rest

\* ------------------------------------------------------- array helpers
\* mutant of IndexOf: lastIndexOf, the highest matching index
IndexOfLast(arr, n, x) ==
    IF \E i \in 0..(n - 1) : arr[i] = x
    THEN CHOOSE i \in 0..(n - 1) : arr[i] = x /\ \A j \in (i + 1)..(n - 1) : arr[j] # x
    ELSE -1

\* Array.prototype.indexOf on an array of length n held as a function on 0..n-1
IndexOf(arr, n, x) ==
    IF \E i \in 0..(n - 1) : arr[i] = x
    THEN CHOOSE i \in 0..(n - 1) : arr[i] = x /\ \A j \in 0..(i - 1) : arr[j] # x
    ELSE -1

Includes(arr, n, x) == \E i \in 0..(n - 1) : arr[i] = x

\* pages.slice(from).indexOf(p)
NextUseIndex(pgs, from, p) ==
    IF \E k \in from..(Len(pgs) - 1) : pgs[k + 1] = p
    THEN (CHOOSE k \in from..(Len(pgs) - 1) :
            pgs[k + 1] = p /\ \A j \in from..(k - 1) : pgs[j + 1] # p) - from
    ELSE -1

\* ------------------------------------------------------------- inputs
PageToken(p) == <<Digits[p + 1]>>

PageTokens == {PageToken(p) : p \in 0..MaxPage}

\* tokens the lenient parse drops, or keeps only after trimming
OddTokens ==
    {<<>>, <<" ">>, <<"x">>, <<"-", "1">>, <<" ", "2">>, <<"1", " ">>, <<"+", "1">>,
     <<"1", "e", "1">>, <<"0", "x", "2">>}

SeqsUpTo(S, n) == UNION {[1..k -> S] : k \in 1..n}

\* "7, 0, 1, ..." splits into "7", " 0", " 1", ...: every token but the first
\* starts with a space (src/App.tsx:11 writes its default text this way)
SpacedText(pgs) ==
    [i \in 1..Len(pgs) |-> IF i = 1 THEN PageToken(pgs[i]) ELSE <<" ">> \o PageToken(pgs[i])]

ScenarioA == <<7, 0, 1, 2, 0, 3, 0, 4, 2, 3, 0, 3, 1>>

ScenarioB == <<1, 2, 3, 4, 1, 2, 5, 1, 2, 3, 4, 5>>

ScenarioFrames == 3

Texts ==
    SeqsUpTo(PageTokens, MaxLen) \cup SeqsUpTo(PageTokens \cup OddTokens, MaxTokLen)

Inputs ==
    (Texts \X ((-1)..MaxFrames))
        \cup {<<SpacedText(ScenarioA), ScenarioFrames>>, <<SpacedText(ScenarioB), ScenarioFrames>>}

\* the order of the four calls of handleSimulate
Order == <<"FIFO", "LRU", "OPTIMAL", "CLOCK">>

\* --------------------------------------------------------------- state
VARIABLES
    rawRefString,   \* the reference text, as its comma-separated tokens
    frameCount,
    algorithm,      \* the policy of the call in progress
    pc,             \* "running": in the forEach; "returned": the call has returned;
                    \* "thrown": Array(frameCount) raised a RangeError
    pages,
    steps,
    hits,
    faults,
    currentFrames,
    fifoQueue,
    lruMap,
    referenceBits,
    clockPointer,
    sweep,          \* locals of the last CLOCK victim search (found, attempts, candidateRef)
    results,        \* the results returned so far, in call order
    other,          \* the locals of a second call, suspended (pc "absent": there is none)
    stepsLength,    \* src/App.tsx: results[0].steps.length of the results state,
                    \* Null while results is []
    currentStep,    \* src/App.tsx: the playback cursor
    isPlaying       \* src/App.tsx: auto-play is on

vars == <<rawRefString, frameCount, algorithm, pc, pages, steps, hits, faults,
          currentFrames, fifoQueue, lruMap, referenceBits, clockPointer, sweep, results,
          other, stepsLength, currentStep, isPlaying>>

\* src/App.tsx lines 15-20: the playback state of a fresh App
NoPlayback ==
    /\ stepsLength = Null
    /\ currentStep = 0
    /\ isPlaying = FALSE

\* the playback state is left as it is
PlaybackFixed == UNCHANGED <<stepsLength, currentStep, isPlaying>>

EmptyObject == [k \in {} |-> Null]

NoSweep == [found |-> FALSE, attempts |-> 0, candidateRef |-> Null]

\* lines 17-32 as one value: the locals of a call of policy alg before its first step
FreshLocals(alg, raw, n) ==
    [algorithm |-> alg,
     pc |-> IF n < 0 THEN "thrown" ELSE "running",
     pages |-> parseReferenceString(raw),
     steps |-> <<>>,
     hits |-> 0,
     faults |-> 0,
     currentFrames |-> [i \in 0..(n - 1) |-> Null],
     fifoQueue |-> <<>>,
     lruMap |-> EmptyObject,
     referenceBits |-> [i \in 0..(n - 1) |-> 0],
     clockPointer |-> 0,
     sweep |-> NoSweep]

\* no second call
NoOther == [FreshLocals("", <<>>, 0) EXCEPT !.pc = "absent"]

\* lines 17-32: the state of a call before its first step
Construct(alg) ==
    /\ algorithm' = alg
    /\ pc' = IF frameCount < 0 THEN "thrown" ELSE "running"
    /\ pages' = parseReferenceString(rawRefString)
    /\ steps' = <<>>
    /\ hits' = 0
    /\ faults' = 0
    /\ currentFrames' = [i \in 0..(frameCount - 1) |-> Null]
    /\ fifoQueue' = <<>>
    /\ lruMap' = EmptyObject
    /\ referenceBits' = [i \in 0..(frameCount - 1) |-> 0]
    /\ clockPointer' = 0
    /\ sweep' = NoSweep

Init ==
    /\ \E in \in Inputs :
        /\ rawRefString = in[1]
        /\ frameCount = in[2]
    /\ algorithm = Order[1]
    /\ pc = IF frameCount < 0 THEN "thrown" ELSE "running"
    /\ pages = parseReferenceString(rawRefString)
    /\ steps = <<>>
    /\ hits = 0
    /\ faults = 0
    /\ currentFrames = [i \in 0..(frameCount - 1) |-> Null]
    /\ fifoQueue = <<>>
    /\ lruMap = EmptyObject
    /\ referenceBits = [i \in 0..(frameCount - 1) |-> 0]
    /\ clockPointer = 0
    /\ sweep = NoSweep
    /\ results = <<>>
    /\ other = NoOther
    /\ NoPlayback

\* ------------------------------------------------------ policy helpers
stepIndex == Len(steps)

page == pages[stepIndex + 1]

InLoop == pc = "running" /\ stepIndex < Len(pages)

\* mutant of isHit: indexOf(page) > 0, which misses slot 0
isHitIndexAboveZero == IndexOf(currentFrames, frameCount, page) > 0

isHit == Includes(currentFrames, frameCount, page)

\* lruMap.set(p, i)
\* mutant of MapSet: an entry that exists is not overwritten
MapSetKeepsFirst(map, p, i) ==
    [q \in DOMAIN map \cup {p} |-> IF q \in DOMAIN map THEN map[q] ELSE i]

MapSet(map, p, i) == [q \in DOMAIN map \cup {p} |-> IF q = p THEN i ELSE map[q]]

\* lruMap.get(p) ?? -1
LastAccess(map, p) == IF p \in DOMAIN map THEN map[p] ELSE -1

\* mutant of Shift: pop(), which removes the newest entry
ShiftNewest(q) ==
    IF Len(q) = 0 THEN [undef |-> TRUE, head |-> Null, rest |-> q]
    ELSE [undef |-> FALSE, head |-> q[Len(q)], rest |-> SubSeq(q, 1, Len(q) - 1)]

\* mutant of Shift: the head is read but stays in the queue
ShiftPeek(q) ==
    IF Len(q) = 0 THEN [undef |-> TRUE, head |-> Null, rest |-> q]
    ELSE [undef |-> FALSE, head |-> Head(q), rest |-> q]

\* fifoQueue.shift(): the removed head (undef when the queue is empty) and the rest
Shift(q) ==
    IF Len(q) = 0 THEN [undef |-> TRUE, head |-> Null, rest |-> q]
    ELSE [undef |-> FALSE, head |-> Head(q), rest |-> Tail(q)]

\* lines 90-101: the LRU scan from slot i on; inf says minLastAccess is still Infinity
RECURSIVE LruScan(_, _, _, _, _)
LruScan(frames, n, map, i, acc) ==
    IF i >= n THEN acc
    ELSE LET p == frames[i]
             lastAccess == LastAccess(map, p)
         IN  IF p # Null /\ (acc.inf \/ lastAccess < acc.minLastAccess)
             THEN LruScan(frames, n, map, i + 1,
                          [inf |-> FALSE, minLastAccess |-> lastAccess, pageToEvict |-> p])
             ELSE LruScan(frames, n, map, i + 1, acc)

\* mutant of LruVictim: the comparison reversed, which keeps the largest index
RECURSIVE LruScanReversed(_, _, _, _, _)
LruScanReversed(frames, n, map, i, acc) ==
    IF i >= n THEN acc
    ELSE LET p == frames[i]
             lastAccess == LastAccess(map, p)
         IN  IF p # Null /\ (acc.inf \/ lastAccess > acc.minLastAccess)
             THEN LruScanReversed(frames, n, map, i + 1,
                          [inf |-> FALSE, minLastAccess |-> lastAccess, pageToEvict |-> p])
             ELSE LruScanReversed(frames, n, map, i + 1, acc)

LruVictimReversed(frames, n, map) ==
    LruScanReversed(frames, n, map, 0,
                    [inf |-> TRUE, minLastAccess |-> 0, pageToEvict |-> -1]).pageToEvict

LruVictim(frames, n, map) ==
    LruScan(frames, n, map, 0, [inf |-> TRUE, minLastAccess |-> 0, pageToEvict |-> -1]).pageToEvict

\* lines 111-139: the OPTIMAL scan from slot i on
RECURSIVE OptimalScan(_, _, _, _, _, _)
OptimalScan(frames, n, pgs, idx, i, acc) ==
    IF i >= n THEN acc
    ELSE LET p == frames[i]
             nextUseIndex == NextUseIndex(pgs, idx + 1, p)
         IN  IF p = Null THEN OptimalScan(frames, n, pgs, idx, i + 1, acc)
             ELSE IF nextUseIndex = -1
             THEN IF ~acc.isInfinite
                  THEN OptimalScan(frames, n, pgs, idx, i + 1,
                           [furthestDistance |-> acc.furthestDistance,
                            pageToEvict |-> p, isInfinite |-> TRUE])
                  ELSE OptimalScan(frames, n, pgs, idx, i + 1, acc)
             ELSE IF ~acc.isInfinite /\ nextUseIndex > acc.furthestDistance
                  THEN OptimalScan(frames, n, pgs, idx, i + 1,
                           [furthestDistance |-> nextUseIndex,
                            pageToEvict |-> p, isInfinite |-> FALSE])
                  ELSE OptimalScan(frames, n, pgs, idx, i + 1, acc)

\* mutant of OptimalScan: a later never-used-again page replaces an earlier one
RECURSIVE OptimalScanLastInfinite(_, _, _, _, _, _)
OptimalScanLastInfinite(frames, n, pgs, idx, i, acc) ==
    IF i >= n THEN acc
    ELSE LET p == frames[i]
             nextUseIndex == NextUseIndex(pgs, idx + 1, p)
         IN  IF p = Null THEN OptimalScanLastInfinite(frames, n, pgs, idx, i + 1, acc)
             ELSE IF nextUseIndex = -1
             THEN OptimalScanLastInfinite(frames, n, pgs, idx, i + 1,
                      [furthestDistance |-> acc.furthestDistance,
                       pageToEvict |-> p, isInfinite |-> TRUE])
             ELSE IF ~acc.isInfinite /\ nextUseIndex > acc.furthestDistance
                  THEN OptimalScanLastInfinite(frames, n, pgs, idx, i + 1,
                           [furthestDistance |-> nextUseIndex,
                            pageToEvict |-> p, isInfinite |-> FALSE])
                  ELSE OptimalScanLastInfinite(frames, n, pgs, idx, i + 1, acc)

\* mutant of OptimalVictim: among the never-used-again pages the last one wins
OptimalVictimLastInfinite(frames, n, pgs, idx) ==
    OptimalScanLastInfinite(frames, n, pgs, idx, 0,
                [furthestDistance |-> -1, pageToEvict |-> -1, isInfinite |-> FALSE]).pageToEvict

\* mutant of OptimalVictim: the lookahead starts one reference too late
OptimalVictimLateSlice(frames, n, pgs, idx) ==
    OptimalScan(frames, n, pgs, idx + 1, 0,
                [furthestDistance |-> -1, pageToEvict |-> -1, isInfinite |-> FALSE]).pageToEvict

\* mutant of OptimalVictim: indexOf on the whole list instead of the remaining slice
OptimalVictimWholeList(frames, n, pgs, idx) ==
    OptimalScan(frames, n, pgs, -1, 0,
                [furthestDistance |-> -1, pageToEvict |-> -1, isInfinite |-> FALSE]).pageToEvict

OptimalVictim(frames, n, pgs, idx) ==
    OptimalScan(frames, n, pgs, idx, 0,
                [furthestDistance |-> -1, pageToEvict |-> -1, isInfinite |-> FALSE]).pageToEvict

\* mutant of Advance: the wrap is forgotten
AdvanceNoWrap(ptr, n) == ptr + 1

\* lines 75, 162, 166: the pointer moves one slot on, wrapping
Advance(ptr, n) == (ptr + 1) % n

\* mutant of ClockSweep: a slot with bit 1 is passed over without clearing the bit
RECURSIVE ClockSweepNoClear(_, _, _, _, _)
ClockSweepNoClear(frames, bits, ptr, n, attempts) ==
    IF ~(attempts < n * 3)
    THEN [found |-> FALSE, indexToReplace |-> -1, replacedPage |-> Null,
          bits |-> bits, clockPointer |-> ptr, attempts |-> attempts, candidateRef |-> Null]
    ELSE IF bits[ptr] = 0
    THEN [found |-> TRUE, indexToReplace |-> ptr, replacedPage |-> frames[ptr],
          bits |-> bits, clockPointer |-> Advance(ptr, n), attempts |-> attempts + 1,
          candidateRef |-> bits[ptr]]
    ELSE ClockSweepNoClear(frames, bits, Advance(ptr, n), n, attempts + 1)

\* mutant of ClockSweep: the slot under the pointer is taken whatever its bit
ClockSweepNoSecondChance(frames, bits, ptr, n, attempts) ==
    IF ~(attempts < n * 3)
    THEN [found |-> FALSE, indexToReplace |-> -1, replacedPage |-> Null,
          bits |-> bits, clockPointer |-> ptr, attempts |-> attempts, candidateRef |-> Null]
    ELSE [found |-> TRUE, indexToReplace |-> ptr, replacedPage |-> frames[ptr],
          bits |-> bits, clockPointer |-> Advance(ptr, n), attempts |-> attempts + 1,
          candidateRef |-> bits[ptr]]

\* lines 150-169: the CLOCK sweep, from `attempts` iterations done
RECURSIVE ClockSweep(_, _, _, _, _)
ClockSweep(frames, bits, ptr, n, attempts) ==
    IF ~(attempts < n * 3)
    THEN [found |-> FALSE, indexToReplace |-> -1, replacedPage |-> Null,
          bits |-> bits, clockPointer |-> ptr, attempts |-> attempts, candidateRef |-> Null]
    ELSE IF bits[ptr] = 0
    THEN [found |-> TRUE, indexToReplace |-> ptr, replacedPage |-> frames[ptr],
          bits |-> bits, clockPointer |-> Advance(ptr, n), attempts |-> attempts + 1,
          candidateRef |-> bits[ptr]]
    ELSE ClockSweep(frames, [bits EXCEPT ![ptr] = 0], Advance(ptr, n), n, attempts + 1)

\* mutant of Place: the test written as indexToReplace > 0, which skips slot 0
PlaceIfPositive(frames, indexToReplace, p) ==
    IF indexToReplace > 0 THEN [frames EXCEPT ![indexToReplace] = p] ELSE frames

\* lines 176-178
Place(frames, indexToReplace, p) ==
    IF indexToReplace # -1 THEN [frames EXCEPT ![indexToReplace] = p] ELSE frames

\* mutant of StepRecord: the step index counted from 1
StepRecordFromOne(nextFrames, nextRefBits, ptr, status, replacedPage) ==
    [stepIndex |-> stepIndex + 1,
     requestedPage |-> page,
     frames |-> nextFrames,
     status |-> status,
     replacedPage |-> replacedPage,
     metadata |-> IF algorithm = "CLOCK"
                  THEN [clockPointer |-> ptr, referenceBits |-> nextRefBits]
                  ELSE EmptyObject]

\* mutant of StepRecord: the metadata holds the bits the step started from
StepRecordStartBits(nextFrames, nextRefBits, ptr, status, replacedPage) ==
    [stepIndex |-> stepIndex,
     requestedPage |-> page,
     frames |-> nextFrames,
     status |-> status,
     replacedPage |-> replacedPage,
     metadata |-> IF algorithm = "CLOCK"
                  THEN [clockPointer |-> ptr, referenceBits |-> referenceBits]
                  ELSE EmptyObject]

\* lines 182-200: the step appended by one pass of the forEach callback
StepRecord(nextFrames, nextRefBits, ptr, status, replacedPage) ==
    [stepIndex |-> stepIndex,
     requestedPage |-> page,
     frames |-> nextFrames,
     status |-> status,
     replacedPage |-> replacedPage,
     metadata |-> IF algorithm = "CLOCK"
                  THEN [clockPointer |-> ptr, referenceBits |-> nextRefBits]
                  ELSE EmptyObject]

Fixed ==
    /\ UNCHANGED <<rawRefString, frameCount, algorithm, pc, pages, results, other>>
    /\ PlaybackFixed

\* ------------------------------------------------------------- actions
\* mutant of Hit: a hit also moves the sweep pointer one slot on
HitAdvancesPointer ==
    /\ InLoop
    /\ isHit
    /\ LET hitIndex == IndexOf(currentFrames, frameCount, page)
           nextRefBits == IF algorithm = "CLOCK"
                          THEN [referenceBits EXCEPT ![hitIndex] = 1]
                          ELSE referenceBits
           ptr == IF algorithm = "CLOCK"
                  THEN Advance(clockPointer, frameCount)
                  ELSE clockPointer
       IN  /\ hits' = hits + 1
           /\ lruMap' = IF algorithm = "LRU" THEN MapSet(lruMap, page, stepIndex) ELSE lruMap
           /\ referenceBits' = nextRefBits
           /\ clockPointer' = ptr
           /\ steps' = Append(steps, StepRecord(currentFrames, nextRefBits, ptr, "HIT", Null))
    /\ UNCHANGED <<faults, currentFrames, fifoQueue, sweep>>
    /\ Fixed

\* lines 44-55 and 182-200: the requested page is resident
Hit ==
    /\ InLoop
    /\ isHit
    /\ LET hitIndex == IndexOf(currentFrames, frameCount, page)
           nextRefBits == IF algorithm = "CLOCK"
                          THEN [referenceBits EXCEPT ![hitIndex] = 1]
                          ELSE referenceBits
       IN  /\ hits' = hits + 1
           /\ lruMap' = IF algorithm = "LRU" THEN MapSet(lruMap, page, stepIndex) ELSE lruMap
           /\ referenceBits' = nextRefBits
           /\ steps' = Append(steps,
                  StepRecord(currentFrames, nextRefBits, clockPointer, "HIT", Null))
    /\ UNCHANGED <<faults, currentFrames, fifoQueue, clockPointer, sweep>>
    /\ Fixed

\* mutant of FillEmpty: nextFrames is currentFrames itself, not a copy, so the
\* write lands in the array the last recorded step holds
FillEmptyInPlace ==
    /\ InLoop
    /\ ~isHit
    /\ LET emptyIndex == IndexOf(currentFrames, frameCount, Null)
       IN  /\ emptyIndex # -1
           /\ LET nextFrames == [currentFrames EXCEPT ![emptyIndex] = page]
                  nextRefBits == IF algorithm = "CLOCK"
                                 THEN [referenceBits EXCEPT ![emptyIndex] = 1]
                                 ELSE referenceBits
                  ptr == IF algorithm = "CLOCK"
                         THEN Advance(clockPointer, frameCount)
                         ELSE clockPointer
                  shared == [i \in 1..Len(steps) |->
                                IF i = Len(steps)
                                THEN [steps[i] EXCEPT !.frames = nextFrames]
                                ELSE steps[i]]
              IN  /\ faults' = faults + 1
                  /\ currentFrames' = nextFrames
                  /\ fifoQueue' = IF algorithm = "FIFO" THEN Append(fifoQueue, page) ELSE fifoQueue
                  /\ lruMap' = IF algorithm = "LRU"
                               THEN MapSet(lruMap, page, stepIndex) ELSE lruMap
                  /\ referenceBits' = nextRefBits
                  /\ clockPointer' = ptr
                  /\ steps' = Append(shared, StepRecord(nextFrames, nextRefBits, ptr, "FAULT", Null))
    /\ UNCHANGED <<hits, sweep>>
    /\ Fixed

\* lines 56-76 and 182-200: a fault with an empty slot
FillEmpty ==
    /\ InLoop
    /\ ~isHit
    /\ LET emptyIndex == IndexOf(currentFrames, frameCount, Null)
       IN  /\ emptyIndex # -1
           /\ LET nextFrames == [currentFrames EXCEPT ![emptyIndex] = page]
                  nextRefBits == IF algorithm = "CLOCK"
                                 THEN [referenceBits EXCEPT ![emptyIndex] = 1]
                                 ELSE referenceBits
                  ptr == IF algorithm = "CLOCK"
                         THEN Advance(clockPointer, frameCount)
                         ELSE clockPointer
              IN  /\ faults' = faults + 1
                  /\ currentFrames' = nextFrames
                  /\ fifoQueue' = IF algorithm = "FIFO" THEN Append(fifoQueue, page) ELSE fifoQueue
                  /\ lruMap' = IF algorithm = "LRU"
                               THEN MapSet(lruMap, page, stepIndex) ELSE lruMap
                  /\ referenceBits' = nextRefBits
                  /\ clockPointer' = ptr
                  /\ steps' = Append(steps, StepRecord(nextFrames, nextRefBits, ptr, "FAULT", Null))
    /\ UNCHANGED <<hits, sweep>>
    /\ Fixed

\* the guard of the replacement branch, line 77
NeedsReplacement ==
    /\ InLoop
    /\ ~isHit
    /\ IndexOf(currentFrames, frameCount, Null) = -1

\* lines 81-88, 176-200
ReplaceFIFO ==
    /\ NeedsReplacement
    /\ algorithm = "FIFO"
    /\ LET sh == Shift(fifoQueue)
           indexToReplace == IF sh.undef THEN -1
                             ELSE IndexOf(currentFrames, frameCount, sh.head)
           replacedPage == IF sh.undef THEN Null ELSE sh.head
           nextFrames == Place(currentFrames, indexToReplace, page)
       IN  /\ fifoQueue' = IF sh.undef THEN sh.rest ELSE Append(sh.rest, page)
           /\ currentFrames' = nextFrames
           /\ steps' = Append(steps,
                  StepRecord(nextFrames, referenceBits, clockPointer, "FAULT", replacedPage))
    /\ faults' = faults + 1
    /\ UNCHANGED <<hits, lruMap, referenceBits, clockPointer, sweep>>
    /\ Fixed

\* lines 89-109, 176-200
ReplaceLRU ==
    /\ NeedsReplacement
    /\ algorithm = "LRU"
    /\ LET pageToEvict == LruVictim(currentFrames, frameCount, lruMap)
           indexToReplace == IF pageToEvict # -1
                             THEN IndexOf(currentFrames, frameCount, pageToEvict) ELSE -1
           replacedPage == IF pageToEvict # -1 THEN pageToEvict ELSE Null
           nextFrames == Place(currentFrames, indexToReplace, page)
       IN  /\ lruMap' = MapSet(lruMap, page, stepIndex)
           /\ currentFrames' = nextFrames
           /\ steps' = Append(steps,
                  StepRecord(nextFrames, referenceBits, clockPointer, "FAULT", replacedPage))
    /\ faults' = faults + 1
    /\ UNCHANGED <<hits, fifoQueue, referenceBits, clockPointer, sweep>>
    /\ Fixed

\* lines 110-147, 176-200
ReplaceOPTIMAL ==
    /\ NeedsReplacement
    /\ algorithm = "OPTIMAL"
    /\ LET pageToEvict == OptimalVictim(currentFrames, frameCount, pages, stepIndex)
           indexToReplace == IF pageToEvict # -1
                             THEN IndexOf(currentFrames, frameCount, pageToEvict) ELSE -1
           replacedPage == IF pageToEvict # -1 THEN pageToEvict ELSE Null
           nextFrames == Place(currentFrames, indexToReplace, page)
       IN  /\ currentFrames' = nextFrames
           /\ steps' = Append(steps,
                  StepRecord(nextFrames, referenceBits, clockPointer, "FAULT", replacedPage))
    /\ faults' = faults + 1
    /\ UNCHANGED <<hits, fifoQueue, lruMap, referenceBits, clockPointer, sweep>>
    /\ Fixed

\* lines 148-200
ReplaceCLOCK ==
    /\ NeedsReplacement
    /\ algorithm = "CLOCK"
    /\ LET sw == ClockSweep(currentFrames, referenceBits, clockPointer, frameCount, 0)
           nextRefBits == IF sw.indexToReplace # -1
                          THEN [sw.bits EXCEPT ![sw.indexToReplace] = 1] ELSE sw.bits
           nextFrames == Place(currentFrames, sw.indexToReplace, page)
       IN  /\ referenceBits' = nextRefBits
           /\ clockPointer' = sw.clockPointer
           /\ currentFrames' = nextFrames
           /\ sweep' = [found |-> sw.found, attempts |-> sw.attempts,
                        candidateRef |-> sw.candidateRef]
           /\ steps' = Append(steps,
                  StepRecord(nextFrames, nextRefBits, sw.clockPointer, "FAULT", sw.replacedPage))
    /\ faults' = faults + 1
    /\ UNCHANGED <<hits, fifoQueue, lruMap>>
    /\ Fixed

\* mutant of Ratio: the division without the test for an empty sequence
RatioUnguarded(count, n) == [num |-> count, den |-> n]

\* mutant of Ratio: the quotient truncated to an integer
RatioTruncated(count, n) ==
    IF n > 0 THEN [num |-> count \div n, den |-> 1] ELSE [num |-> 0, den |-> 1]

\* lines 208-209: count / pages.length as the exact fraction num / den, 0 as 0 / 1
Ratio(count, n) ==
    IF n > 0 THEN [num |-> count, den |-> n] ELSE [num |-> 0, den |-> 1]

\* lines 203-210: the forEach is over and the call returns its result
Return ==
    /\ pc = "running"
    /\ stepIndex = Len(pages)
    /\ pc' = "returned"
    /\ results' = Append(results,
           [algorithm |-> algorithm, steps |-> steps,
            totalHits |-> hits, totalFaults |-> faults,
            hitRatio |-> Ratio(hits, Len(pages)),
            faultRatio |-> Ratio(faults, Len(pages))])
    /\ UNCHANGED <<rawRefString, frameCount, algorithm, pages, steps, hits, faults,
                   currentFrames, fifoQueue, lruMap, referenceBits, clockPointer, sweep,
                   other>>
    /\ PlaybackFixed

\* src/App.tsx lines 30-33: the next of the four calls, on the same text and frame count
Call ==
    /\ pc = "returned"
    /\ Len(results) < Len(Order)
    /\ Construct(Order[Len(results) + 1])
    /\ UNCHANGED <<rawRefString, frameCount, results, other>>
    /\ PlaybackFixed

Next ==
    \/ Hit
    \/ FillEmpty
    \/ ReplaceFIFO
    \/ ReplaceLRU
    \/ ReplaceOPTIMAL
    \/ ReplaceCLOCK
    \/ Return
    \/ Call

Spec == Init /\ [][Next]_vars

\* ------------------------------------------- an unrecognized policy selector
Policies == {Order[k] : k \in 1..Len(Order)}

\* selectors that are none of the four values of AlgorithmType
Unrecognized == {"MRU", "fifo"}

\* the state of the running call put to the locals ls
Resume(ls) ==
    /\ algorithm' = ls.algorithm
    /\ pc' = ls.pc
    /\ pages' = ls.pages
    /\ steps' = ls.steps
    /\ hits' = ls.hits
    /\ faults' = ls.faults
    /\ currentFrames' = ls.currentFrames
    /\ fifoQueue' = ls.fifoQueue
    /\ lruMap' = ls.lruMap
    /\ referenceBits' = ls.referenceBits
    /\ clockPointer' = ls.clockPointer
    /\ sweep' = ls.sweep

\* the locals of the running call
Locals ==
    [algorithm |-> algorithm, pc |-> pc, pages |-> pages, steps |-> steps,
     hits |-> hits, faults |-> faults, currentFrames |-> currentFrames,
     fifoQueue |-> fifoQueue, lruMap |-> lruMap, referenceBits |-> referenceBits,
     clockPointer |-> clockPointer, sweep |-> sweep]

\* the running call starts from the locals ls
StartFrom(ls) ==
    /\ algorithm = ls.algorithm
    /\ pc = ls.pc
    /\ pages = ls.pages
    /\ steps = ls.steps
    /\ hits = ls.hits
    /\ faults = ls.faults
    /\ currentFrames = ls.currentFrames
    /\ fifoQueue = ls.fifoQueue
    /\ lruMap = ls.lruMap
    /\ referenceBits = ls.referenceBits
    /\ clockPointer = ls.clockPointer
    /\ sweep = ls.sweep

\* runSimulation called once with a selector that matches no branch
InitUnrecognized ==
    /\ \E in \in Inputs :
        /\ rawRefString = in[1]
        /\ frameCount = in[2]
    /\ \E alg \in Unrecognized : StartFrom(FreshLocals(alg, rawRefString, frameCount))
    /\ results = <<>>
    /\ other = NoOther
    /\ NoPlayback

\* lines 77-79 and 176-200 when no branch of lines 81-174 matches the selector:
\* indexToReplace stays -1 and the frame table is left as it was
ReplaceUnrecognized ==
    /\ NeedsReplacement
    /\ algorithm \notin Policies
    /\ steps' = Append(steps,
           StepRecord(Place(currentFrames, -1, page), referenceBits, clockPointer, "FAULT", Null))
    /\ currentFrames' = Place(currentFrames, -1, page)
    /\ faults' = faults + 1
    /\ UNCHANGED <<hits, fifoQueue, lruMap, referenceBits, clockPointer, sweep>>
    /\ Fixed

NextUnrecognized ==
    \/ Hit
    \/ FillEmpty
    \/ ReplaceUnrecognized
    \/ Return

SpecUnrecognized == InitUnrecognized /\ [][NextUnrecognized]_vars

\* ------------------------------------------------- two calls, interleaved
InputsTwo == SeqsUpTo(PageTokens, MaxLenTwo) \X (0..MaxFrames)

\* two calls with the same text, frame count and policy, the second not yet started
InitTwoRuns ==
    /\ \E in \in InputsTwo :
        /\ rawRefString = in[1]
        /\ frameCount = in[2]
    /\ \E alg \in Policies :
        /\ StartFrom(FreshLocals(alg, rawRefString, frameCount))
        /\ other = FreshLocals(alg, rawRefString, frameCount)
    /\ results = <<>>
    /\ NoPlayback

\* mutant of Switch: the FIFO queue, the LRU map and the CLOCK state are kept
\* at module level, so the call that resumes finds what the other call left
SwitchSharedPolicyState ==
    /\ other.pc = "running"
    /\ pc \in {"running", "returned"}
    /\ other' = Locals
    /\ Resume([other EXCEPT !.fifoQueue = fifoQueue, !.lruMap = lruMap,
                            !.referenceBits = referenceBits, !.clockPointer = clockPointer])
    /\ UNCHANGED <<rawRefString, frameCount, results>>
    /\ PlaybackFixed

\* lines 17-32: every name a call writes is declared inside runSimulation, so a
\* call that is suspended keeps its own locals and the call that resumes finds its own
Switch ==
    /\ other.pc = "running"
    /\ pc \in {"running", "returned"}
    /\ other' = Locals
    /\ Resume(other)
    /\ UNCHANGED <<rawRefString, frameCount, results>>
    /\ PlaybackFixed

NextTwoRuns ==
    \/ Hit
    \/ FillEmpty
    \/ ReplaceFIFO
    \/ ReplaceLRU
    \/ ReplaceOPTIMAL
    \/ ReplaceCLOCK
    \/ Return
    \/ Switch

SpecTwoRuns == InitTwoRuns /\ [][NextTwoRuns]_vars

\* ------------------------------------------------- reading a recorded run
\* the frame table step i (1-based position in steps) started from
PrevFrames(st, i) ==
    IF i = 1 THEN [k \in 0..(frameCount - 1) |-> Null] ELSE st[i - 1].frames

Resident(frames) == {frames[k] : k \in 0..(frameCount - 1)} \ {Null}

IsFull(frames) == \A k \in 0..(frameCount - 1) : frames[k] # Null

\* a fault with no empty slot
IsReplacement(st, i) ==
    /\ st[i].status = "FAULT"
    /\ IsFull(PrevFrames(st, i))

Last(st) == st[Len(st)]

\* C1: for frameCount >= 1 and each policy, hits + faults equals the number of
\* recorded steps, which at return equals the length of the parsed reference
\* sequence; step i has stepIndex i and requests the i-th parsed page.
C1_CountsAndIndices ==
    frameCount >= 1 =>
        /\ hits + faults = Len(steps)
        /\ \A i \in 1..Len(steps) :
            /\ steps[i].stepIndex = i - 1
            /\ steps[i].requestedPage = pages[i]
        /\ \A k \in 1..Len(results) :
            /\ results[k].algorithm = Order[k]
            /\ results[k].totalHits + results[k].totalFaults = Len(results[k].steps)
            /\ Len(results[k].steps) = Len(pages)
            /\ \A i \in 1..Len(results[k].steps) :
                /\ results[k].steps[i].stepIndex = i - 1
                /\ results[k].steps[i].requestedPage = pages[i]
        /\ pages = parseReferenceString(rawRefString)

C1_Witness ==
    /\ frameCount >= 1
    /\ Len(results) = Len(Order)
    /\ Len(pages) >= 3
    /\ \A k \in 1..Len(results) : results[k].totalHits >= 1 /\ results[k].totalFaults >= 2

\* C2: every step is HIT or FAULT, and HIT exactly when the requested page was
\* in some slot of the frame table left by the previous step (all empty before
\* step 0); the steps follow the references one for one.
C2_HitIffResident ==
    /\ \A i \in 1..Len(steps) :
        /\ steps[i].status \in {"HIT", "FAULT"}
        /\ steps[i].status = "HIT" <=> steps[i].requestedPage \in Resident(PrevFrames(steps, i))
        /\ steps[i].requestedPage = pages[i]
    /\ Len(steps) <= Len(pages)
    /\ pc = "returned" => Len(steps) = Len(pages)

C2_Witness ==
    /\ frameCount >= 2
    /\ Len(steps) >= 3
    /\ Last(steps).status = "HIT"
    /\ Last(steps).requestedPage # PrevFrames(steps, Len(steps))[0]
    /\ \E i \in 1..Len(steps) : IsReplacement(steps, i)

\* the last step before position i that loaded page p (0 if none)
LoadStep(st, i, p) ==
    LET L == {j \in 1..(i - 1) : st[j].status = "FAULT" /\ st[j].requestedPage = p}
    IN  IF L = {} THEN 0 ELSE CHOOSE j \in L : \A k \in L : k <= j

\* C3: under FIFO every replacement step evicts the resident page that was
\* loaded earliest; hits in between do not change that.
C3_FifoEvictsOldest ==
    (algorithm = "FIFO" /\ frameCount >= 1) =>
        \A i \in 1..Len(steps) :
            IsReplacement(steps, i) =>
                /\ steps[i].replacedPage \in Resident(PrevFrames(steps, i))
                /\ \A q \in Resident(PrevFrames(steps, i)) :
                    LoadStep(steps, i, steps[i].replacedPage) <= LoadStep(steps, i, q)

\* a FIFO eviction of a page that was hit after the page evicted next was loaded
C3_Witness ==
    /\ algorithm = "FIFO"
    /\ frameCount >= 2
    /\ Len(steps) >= 1
    /\ IsReplacement(steps, Len(steps))
    /\ \E j \in 1..(Len(steps) - 1) :
        /\ steps[j].status = "HIT"
        /\ steps[j].requestedPage = Last(steps).replacedPage
        /\ \A q \in Resident(PrevFrames(steps, Len(steps))) : LoadStep(steps, Len(steps), q) < j

\* C4: under LRU the evicted page's recorded last-reference index is at most
\* that of every page resident at the moment of eviction.
C4_LruEvictsLeastRecent ==
    [][(/\ algorithm = "LRU"
        /\ frameCount >= 1
        /\ Len(steps') = Len(steps) + 1
        /\ IsFull(currentFrames)
        /\ Last(steps').status = "FAULT")
       => /\ Last(steps').replacedPage \in Resident(currentFrames)
          /\ Last(steps').replacedPage \in DOMAIN lruMap
          /\ \A q \in Resident(currentFrames) :
                q \in DOMAIN lruMap /\ lruMap[Last(steps').replacedPage] <= lruMap[q]]_vars

\* an LRU eviction of a page that is not the one loaded earliest
C4_Witness ==
    /\ algorithm = "LRU"
    /\ frameCount >= 2
    /\ Len(steps) >= 1
    /\ IsReplacement(steps, Len(steps))
    /\ \E q \in Resident(PrevFrames(steps, Len(steps))) :
        LoadStep(steps, Len(steps), q) < LoadStep(steps, Len(steps), Last(steps).replacedPage)

\* distance from step i (1-based) to the next request of p; Len(pages) + 1
\* stands for "never again", above every finite distance
Distance(i, p) ==
    LET F == {k \in (i + 1)..Len(pages) : pages[k] = p}
    IN  IF F = {} THEN Len(pages) + 1 ELSE (CHOOSE k \in F : \A m \in F : k <= m) - i

\* C5: under OPTIMAL no resident page has a strictly larger distance to its
\* next use than the evicted page, "never used again" counting as infinite.
C5_OptimalEvictsFurthest ==
    (algorithm = "OPTIMAL" /\ frameCount >= 1) =>
        \A i \in 1..Len(steps) :
            IsReplacement(steps, i) =>
                /\ steps[i].replacedPage \in Resident(PrevFrames(steps, i))
                /\ \A q \in Resident(PrevFrames(steps, i)) :
                    Distance(i, q) <= Distance(i, steps[i].replacedPage)

\* an OPTIMAL eviction of a never-again page from a slot after one that is used again
C5_Witness ==
    /\ algorithm = "OPTIMAL"
    /\ frameCount >= 2
    /\ Len(steps) >= 1
    /\ IsReplacement(steps, Len(steps))
    /\ Distance(Len(steps), Last(steps).replacedPage) = Len(pages) + 1
    /\ Distance(Len(steps), PrevFrames(steps, Len(steps))[0]) <= Len(pages)

\* C6: under CLOCK the victim slot's bit is 0 when it is chosen; a slot whose
\* bit was 1 when the sweep started is evicted only on a later visit, after
\* the whole table has been passed once and the bit cleared.
C6_ClockVictimBitZero ==
    [][(/\ algorithm = "CLOCK"
        /\ frameCount >= 1
        /\ Len(steps') = Len(steps) + 1
        /\ IsFull(currentFrames)
        /\ Last(steps').status = "FAULT")
       => /\ sweep'.found
          /\ sweep'.candidateRef = 0
          /\ \E v \in 0..(frameCount - 1) :
                /\ currentFrames'[v] # currentFrames[v]
                /\ currentFrames[v] = Last(steps').replacedPage
                /\ referenceBits[v] = 1 => sweep'.attempts > frameCount]_vars

\* a CLOCK eviction from a slot whose bit was 1 when the sweep started
C6_Witness ==
    /\ algorithm = "CLOCK"
    /\ frameCount >= 2
    /\ Len(steps) >= 2
    /\ IsReplacement(steps, Len(steps))
    /\ sweep.found
    /\ sweep.attempts = frameCount + 1
    /\ \E v \in 0..(frameCount - 1) :
        /\ PrevFrames(steps, Len(steps))[v] = Last(steps).replacedPage
        /\ steps[Len(steps) - 1].metadata.referenceBits[v] = 1

\* C7: under CLOCK with frameCount >= 1 the sweep pointer held by the engine
\* and the one recorded in every step lie in 0 .. frameCount - 1.
C7_ClockPointerInRange ==
    (algorithm = "CLOCK" /\ frameCount >= 1) =>
        /\ clockPointer \in 0..(frameCount - 1)
        /\ \A i \in 1..Len(steps) : steps[i].metadata.clockPointer \in 0..(frameCount - 1)

\* the pointer has wrapped to 0 on a fill, and again after an eviction in the last slot
C7_Witness ==
    /\ algorithm = "CLOCK"
    /\ frameCount >= 2
    /\ Len(steps) > frameCount
    /\ steps[frameCount].metadata.clockPointer = 0
    /\ steps[frameCount].replacedPage = Null
    /\ IsReplacement(steps, Len(steps))
    /\ PrevFrames(steps, Len(steps))[frameCount - 1] = Last(steps).replacedPage
    /\ clockPointer = 0

\* C8: under CLOCK with frameCount >= 1 every eviction sweep finds its victim
\* within 2 * frameCount visits.
C8_ClockSweepBounded ==
    (/\ algorithm = "CLOCK"
     /\ frameCount >= 1
     /\ Len(steps) >= 1
     /\ IsReplacement(steps, Len(steps)))
    => /\ sweep.found
       /\ sweep.attempts >= 1
       /\ sweep.attempts <= 2 * frameCount

\* a sweep that passed every slot once before it found its victim
C8_Witness ==
    /\ algorithm = "CLOCK"
    /\ frameCount >= 1
    /\ Len(steps) >= 1
    /\ IsReplacement(steps, Len(steps))
    /\ sweep.found
    /\ sweep.attempts = frameCount + 1

AllReturned == pc = "returned" /\ Len(results) = Len(Order)

\* results are in the order of Order: FIFO, LRU, OPTIMAL, CLOCK
FaultsOf(alg) == results[CHOOSE k \in 1..Len(Order) : Order[k] = alg].totalFaults

\* C9: for frameCount >= 1 OPTIMAL faults at most as often as FIFO, LRU and
\* CLOCK on the same input, and on [1,2,3,4,1,2,5,1,2,3,4,5] with 3 frames LRU
\* faults strictly more often than OPTIMAL.
C9_OptimalNoWorse ==
    (AllReturned /\ frameCount >= 1) =>
        /\ \A alg \in {"FIFO", "LRU", "CLOCK"} : FaultsOf("OPTIMAL") <= FaultsOf(alg)
        /\ (pages = ScenarioB /\ frameCount = 3) => FaultsOf("LRU") > FaultsOf("OPTIMAL")

\* the four runs of scenario B have returned
C9_Witness ==
    /\ AllReturned
    /\ pages = ScenarioB
    /\ frameCount = 3
    /\ FaultsOf("OPTIMAL") < FaultsOf("FIFO")
    /\ FaultsOf("OPTIMAL") < FaultsOf("CLOCK")

FifoReturnedA ==
    /\ Len(results) >= 1
    /\ results[1].algorithm = "FIFO"
    /\ parseReferenceString(rawRefString) = ScenarioA
    /\ frameCount = 3

\* C10 as stated: FIFO with 3 frames on [7,0,1,2,0,3,0,4,2,3,0,3,1] faults 9 times.
C10_AsStated == FifoReturnedA => results[1].totalFaults = 9

\* C10 amended: FIFO with 3 frames on [7,0,1,2,0,3,0,4,2,3,0,3,1] faults 11
\* times (and hits twice).
C10_FifoScenarioA ==
    FifoReturnedA => results[1].totalFaults = 11 /\ results[1].totalHits = 2

C10_Witness == FifoReturnedA /\ Len(results[1].steps) = Len(ScenarioA)

\* C11: with one frame, under each policy step 0 is a FAULT and a later step
\* is a FAULT exactly when its page differs from the page before it; the frame
\* then holds the requested page, so the four runs agree step by step.
C11_SingleFrame ==
    frameCount = 1 =>
        /\ \A i \in 1..Len(steps) :
            /\ steps[i].status = IF i = 1 \/ pages[i] # pages[i - 1] THEN "FAULT" ELSE "HIT"
            /\ steps[i].frames = [k \in {0} |-> pages[i]]
        /\ \A k \in 1..Len(results) : \A i \in 1..Len(results[k].steps) :
            /\ results[k].steps[i].status = results[1].steps[i].status
            /\ results[k].steps[i].frames = results[1].steps[i].frames
            /\ results[k].totalFaults = results[1].totalFaults

\* four one-frame runs over a text with a repeated and a changed page
C11_Witness ==
    /\ AllReturned
    /\ frameCount = 1
    /\ \E i \in 2..Len(pages) : pages[i] = pages[i - 1]
    /\ \E i \in 2..Len(pages) : pages[i] # pages[i - 1]
    /\ results[4].totalHits >= 1
    /\ results[4].totalFaults >= 2

\* C12 as stated: a call with frameCount <= 0 fails and returns no result.
C12_AsStated ==
    frameCount <= 0 => (pc # "returned" /\ results = <<>>)

\* C13 as stated: a call (frameCount >= 1) with a selector that is none of the
\* four policies fails and returns no result.
C13_AsStated ==
    (algorithm \notin Policies /\ frameCount >= 1) => (pc # "returned" /\ results = <<>>)

NoDuplicates(frames) ==
    \A a, b \in 0..(frameCount - 1) :
        (a # b /\ frames[a] # Null) => frames[a] # frames[b]

\* C14: with frameCount >= 1 no page is held by two slots, in the frame table
\* and in every recorded snapshot.
C14_NoDuplicatePages ==
    frameCount >= 1 =>
        /\ pc # "thrown" => NoDuplicates(currentFrames)
        /\ \A i \in 1..Len(steps) : NoDuplicates(steps[i].frames)

\* a full table of three pages after a replacement and a later hit
C14_Witness ==
    /\ frameCount >= 3
    /\ IsFull(currentFrames)
    /\ Len(steps) > frameCount
    /\ Last(steps).status = "HIT"
    /\ \E i \in 1..Len(steps) : steps[i].replacedPage # Null

IsIntegerLiteral(s) ==
    \/ AllDigits(s)
    \/ Len(s) > 1 /\ s[1] \in {"+", "-"} /\ AllDigits(Tail(s))

IntegerLiteralValue(s) ==
    IF AllDigits(s) THEN DigitsValue(s, 0)
    ELSE IF s[1] = "-" THEN 0 - DigitsValue(Tail(s), 0) ELSE DigitsValue(Tail(s), 0)

\* the parse the claim describes: the trimmed tokens that are non-negative
\* integer literals, in order
RECURSIVE IntegerTokens(_)
IntegerTokens(input) ==
    IF Len(input) = 0 THEN <<>>
    ELSE LET t == Trim(Head(input))
         IN  IF IsIntegerLiteral(t) /\ IntegerLiteralValue(t) >= 0
             THEN <<IntegerLiteralValue(t)>> \o IntegerTokens(Tail(input))
             ELSE IntegerTokens(Tail(input))

\* C16 as stated: the parsed sequence is exactly the non-negative integer
\* literals of the text, in order; every other token is discarded.
C16_AsStated == pages = IntegerTokens(rawRefString)

IsZero(r) == r.num = 0 /\ r.den > 0

C18_Ratios ==
    \A k \in 1..Len(results) :
        LET r == results[k]
            n == Len(r.steps)
        IN  /\ r.hitRatio.den > 0
            /\ r.faultRatio.den > 0
            /\ n >= 1 =>
                /\ r.hitRatio.num * n = r.totalHits * r.hitRatio.den
                /\ r.faultRatio.num * n = r.totalFaults * r.faultRatio.den
                /\ r.hitRatio.num * r.faultRatio.den + r.faultRatio.num * r.hitRatio.den
                     = r.hitRatio.den * r.faultRatio.den
            /\ n = 0 => r.hitRatio.num = 0 /\ r.faultRatio.num = 0

\* a returned run with hits and faults whose hit count is no multiple of n
C18_Witness ==
    /\ Len(results) >= 1
    /\ Len(results[1].steps) >= 3
    /\ results[1].totalHits >= 1
    /\ results[1].totalFaults >= 2
    /\ results[1].hitRatio.num * 3 = results[1].hitRatio.den

\* C19: a HIT and a fault that fills an empty slot record no evicted page; a
\* fault on a full table (frameCount >= 1) records a page that was resident
\* before the step, is not the requested page and is not in the step's snapshot.
C19_EvictedPage ==
    \A i \in 1..Len(steps) :
        /\ steps[i].status = "HIT" => steps[i].replacedPage = Null
        /\ (steps[i].status = "FAULT" /\ ~IsFull(PrevFrames(steps, i))) =>
                steps[i].replacedPage = Null
        /\ (frameCount >= 1 /\ IsReplacement(steps, i)) =>
                /\ steps[i].replacedPage \in Resident(PrevFrames(steps, i))
                /\ steps[i].replacedPage # steps[i].requestedPage
                /\ steps[i].replacedPage \notin Resident(steps[i].frames)

\* a run with a fill, a hit and an eviction from slot 0
C19_Witness ==
    /\ frameCount >= 2
    /\ Len(steps) >= 4
    /\ \E i \in 1..Len(steps) : steps[i].status = "HIT"
    /\ IsReplacement(steps, Len(steps))
    /\ Last(steps).replacedPage = PrevFrames(steps, Len(steps))[0]

\* C20: with frameCount >= 1, after every step the requested page is in the
\* step's snapshot, and every fault on a full table has found a victim.
C20_RequestedPageResident ==
    frameCount >= 1 =>
        /\ \A i \in 1..Len(steps) :
            /\ steps[i].requestedPage \in Resident(steps[i].frames)
            /\ IsReplacement(steps, i) => steps[i].replacedPage # Null
        /\ \A k \in 1..Len(results) : \A i \in 1..Len(results[k].steps) :
            results[k].steps[i].requestedPage \in Resident(results[k].steps[i].frames)

\* each of the four returned runs has evicted at least once
C20_Witness ==
    /\ AllReturned
    /\ frameCount >= 2
    /\ \A k \in 1..Len(results) :
        \E i \in 1..Len(results[k].steps) : results[k].steps[i].replacedPage # Null

\* ------------------------------------------------ one step's effect
\* the slots in which two frame tables differ
Changed(before, after) == {k \in 0..(frameCount - 1) : after[k] # before[k]}

\* the lowest-index empty slot of a table that has one
LowestEmpty(frames) ==
    CHOOSE k \in 0..(frameCount - 1) :
        frames[k] = Null /\ \A j \in 0..(k - 1) : frames[j] # Null

\* C21: the most recent step changed at most one slot of the frame table: a
\* HIT none, a fault with an empty slot only the lowest-index empty slot, a
\* fault on a full table only the slot that held the evicted page; the changed
\* slot holds the requested page.  Every step is the most recent one in the
\* state that follows it.
C21_OneSlotPerStep ==
    (frameCount >= 1 /\ Len(steps) >= 1) =>
        LET i == Len(steps)
            before == PrevFrames(steps, i)
            after == steps[i].frames
        IN  /\ currentFrames = after
            /\ Cardinality(Changed(before, after)) <= 1
            /\ steps[i].status = "HIT" => Changed(before, after) = {}
            /\ (steps[i].status = "FAULT" /\ ~IsFull(before)) =>
                   /\ Changed(before, after) = {LowestEmpty(before)}
                   /\ after[LowestEmpty(before)] = steps[i].requestedPage
            /\ IsReplacement(steps, i) =>
                   /\ Changed(before, after) =
                          {k \in 0..(frameCount - 1) : before[k] = steps[i].replacedPage}
                   /\ \A k \in Changed(before, after) : after[k] = steps[i].requestedPage
                   /\ Changed(before, after) # {}

\* a run that has filled a slot other than slot 0 and replaced a page in a slot
\* other than slot 0 after a hit
C21_Witness ==
    /\ frameCount >= 2
    /\ Len(steps) >= 2
    /\ IsReplacement(steps, Len(steps))
    /\ Changed(PrevFrames(steps, Len(steps)), currentFrames) # {0}
    /\ \E j \in 1..(Len(steps) - 1) : steps[j].status = "HIT"

\* the distance of slot k from the sweep pointer in cyclic order
SweepDistance(k) == (k - clockPointer + frameCount) % frameCount

\* the slots whose reference bit is 0 before the step
ZeroBits == {k \in 0..(frameCount - 1) : referenceBits[k] = 0}

\* the slot the sweep is claimed to select: the first one with bit 0 in cyclic
\* order from the pointer, the pointer's own slot when every bit is 1
ClaimedVictim ==
    IF ZeroBits = {} THEN clockPointer
    ELSE CHOOSE k \in ZeroBits : \A j \in ZeroBits : SweepDistance(k) <= SweepDistance(j)

\* a CLOCK step of the given status taken from a table that is full or not
ClockStep(status, full) ==
    /\ algorithm = "CLOCK"
    /\ frameCount >= 1
    /\ pc = "running"
    /\ Len(steps') = Len(steps) + 1
    /\ IsFull(currentFrames) <=> full
    /\ Last(steps').status = status

\* C22: a CLOCK eviction takes the first slot with bit 0 in cyclic order from
\* the pointer, or the pointer's own slot after a full cycle when all bits are
\* 1; slots visited before the victim end with bit 0, slots not visited keep
\* their bit, the victim's slot ends with bit 1 and the pointer ends one past
\* the victim.
C22_ClockEviction ==
    [][ClockStep("FAULT", TRUE) =>
          LET v == ClaimedVictim
          IN  /\ Last(steps').replacedPage = currentFrames[v]
              /\ currentFrames' = [currentFrames EXCEPT ![v] = Last(steps').requestedPage]
              /\ \A k \in (0..(frameCount - 1)) \ {v} :
                     referenceBits'[k] =
                         IF ZeroBits = {} \/ SweepDistance(k) < SweepDistance(v)
                         THEN 0 ELSE referenceBits[k]
              /\ referenceBits'[v] = 1
              /\ clockPointer' = (v + 1) % frameCount]_vars

\* a CLOCK eviction that passed over a slot, cleared its bit, and left a slot
\* behind the victim with its bit still 1
C22_Witness ==
    /\ algorithm = "CLOCK"
    /\ frameCount >= 3
    /\ Len(steps) >= 1
    /\ Last(steps).replacedPage # Null
    /\ sweep.attempts >= 2
    /\ sweep.attempts <= frameCount
    /\ Cardinality({k \in 0..(frameCount - 1) : referenceBits[k] = 1}) >= 2
    /\ \E k \in 0..(frameCount - 1) : referenceBits[k] = 0

\* C23: a CLOCK fault that fills an empty slot sets that slot's bit, leaves the
\* other bits alone, records no evicted page and moves the pointer one slot on
\* modulo frameCount.
C23_ClockFill ==
    [][ClockStep("FAULT", FALSE) =>
          LET e == LowestEmpty(currentFrames)
          IN  /\ currentFrames' = [currentFrames EXCEPT ![e] = Last(steps').requestedPage]
              /\ referenceBits' = [referenceBits EXCEPT ![e] = 1]
              /\ Last(steps').replacedPage = Null
              /\ clockPointer' = (clockPointer + 1) % frameCount]_vars

\* a CLOCK run whose last step filled the last empty slot, so that the pointer
\* wrapped to 0, after a hit
C23_Witness ==
    /\ algorithm = "CLOCK"
    /\ frameCount >= 2
    /\ Len(steps) >= 2
    /\ Last(steps).status = "FAULT"
    /\ ~IsFull(PrevFrames(steps, Len(steps)))
    /\ IsFull(currentFrames)
    /\ clockPointer = 0
    /\ \E j \in 1..(Len(steps) - 1) : steps[j].status = "HIT"

\* C24: a CLOCK hit sets the bit of the slot that holds the requested page and
\* leaves the pointer, the other bits and the frame table as they were.
C24_ClockHit ==
    [][(ClockStep("HIT", TRUE) \/ ClockStep("HIT", FALSE)) =>
          \E h \in 0..(frameCount - 1) :
              /\ currentFrames[h] = Last(steps').requestedPage
              /\ referenceBits' = [referenceBits EXCEPT ![h] = 1]
              /\ clockPointer' = clockPointer
              /\ currentFrames' = currentFrames
              /\ Last(steps').frames = currentFrames
              /\ Last(steps').replacedPage = Null]_vars

\* a CLOCK hit on a slot whose bit an earlier sweep had cleared
C24_Witness ==
    /\ algorithm = "CLOCK"
    /\ frameCount >= 2
    /\ Len(steps) >= 2
    /\ Last(steps).status = "HIT"
    /\ \E h \in 0..(frameCount - 1) :
           /\ currentFrames[h] = Last(steps).requestedPage
           /\ steps[Len(steps) - 1].metadata.referenceBits[h] = 0
           /\ referenceBits[h] = 1

\* the slots of the frame table before step i whose page does not occur after
\* position i of the reference sequence
NeverAgain(i) ==
    {k \in 0..(frameCount - 1) : Distance(i, PrevFrames(steps, i)[k]) = Len(pages) + 1}

\* C25: under OPTIMAL, when two or more resident pages are never used again
\* the most recent replacement evicted the one of them in the lowest slot; when
\* every resident page is used again it evicted the page whose next use is
\* strictly further away than that of every other resident page.
C25_OptimalTieBreak ==
    (algorithm = "OPTIMAL" /\ frameCount >= 1 /\ Len(steps) >= 1
        /\ IsReplacement(steps, Len(steps))) =>
        LET i == Len(steps)
            before == PrevFrames(steps, i)
            evicted == steps[i].replacedPage
        IN  /\ Cardinality(NeverAgain(i)) >= 2 =>
                \E k \in NeverAgain(i) :
                    /\ before[k] = evicted
                    /\ \A j \in NeverAgain(i) : k <= j
            /\ NeverAgain(i) = {} =>
                /\ evicted \in Resident(before)
                /\ \A q \in Resident(before) \ {evicted} :
                       Distance(i, q) < Distance(i, evicted)

\* an OPTIMAL run with a replacement at which two resident pages, but not all,
\* were never used again, and a replacement at which every resident page was
\* used again
C25_Witness ==
    /\ algorithm = "OPTIMAL"
    /\ frameCount >= 3
    /\ \E i \in 1..Len(steps) :
           /\ IsReplacement(steps, i)
           /\ Cardinality(NeverAgain(i)) >= 2
           /\ Cardinality(NeverAgain(i)) < frameCount
    /\ \E j \in 1..Len(steps) :
           /\ IsReplacement(steps, j)
           /\ NeverAgain(j) = {}

\* the position of the most recent occurrence of page p among the first n
\* references, 0 when there is none
MostRecent(n, p) ==
    LET O == {j \in 1..n : pages[j] = p}
    IN  IF O = {} THEN 0 ELSE CHOOSE j \in O : \A k \in O : k <= j

\* C26: under LRU, after every step the map holds, for exactly the pages of
\* the processed prefix, the index of their most recent occurrence, so the
\* step set the requested page's entry to its own index and left the others;
\* every resident page has an entry, and the most recent replacement evicted
\* the resident page whose most recent reference was oldest.
C26_LruMapIsLastReference ==
    (algorithm = "LRU" /\ frameCount >= 1) =>
        LET n == Len(steps)
        IN  /\ DOMAIN lruMap = {pages[j] : j \in 1..n}
            /\ \A p \in DOMAIN lruMap : lruMap[p] = MostRecent(n, p) - 1
            /\ n >= 1 => lruMap[steps[n].requestedPage] = steps[n].stepIndex
            /\ Resident(currentFrames) \subseteq DOMAIN lruMap
            /\ (n >= 1 /\ IsReplacement(steps, n)) =>
                /\ steps[n].replacedPage \in Resident(PrevFrames(steps, n))
                /\ \A q \in Resident(PrevFrames(steps, n)) :
                       /\ MostRecent(n - 1, q) >= 1
                       /\ MostRecent(n - 1, steps[n].replacedPage) <= MostRecent(n - 1, q)

\* an LRU replacement that evicted a page loaded later than another resident
\* page, which a hit had refreshed
C26_Witness ==
    /\ algorithm = "LRU"
    /\ frameCount >= 2
    /\ Len(steps) >= 1
    /\ IsReplacement(steps, Len(steps))
    /\ \E q \in Resident(PrevFrames(steps, Len(steps))) :
           LoadStep(steps, Len(steps), q)
               < LoadStep(steps, Len(steps), Last(steps).replacedPage)

\* C27: the most recent CLOCK step's metadata holds the pointer and the
\* reference bits the next step starts from, the bit vector has frameCount
\* entries, each 0 or 1, and the pointer is recorded with it; the most recent
\* step of another policy, and the steps of the results already returned for
\* the other policies, carry neither.
C27_ClockMetadata ==
    /\ (algorithm = "CLOCK" /\ Len(steps) >= 1) =>
           /\ DOMAIN Last(steps).metadata = {"clockPointer", "referenceBits"}
           /\ Last(steps).metadata.clockPointer = clockPointer
           /\ Last(steps).metadata.referenceBits = referenceBits
           /\ DOMAIN Last(steps).metadata.referenceBits = 0..(frameCount - 1)
           /\ \A k \in 0..(frameCount - 1) :
                  Last(steps).metadata.referenceBits[k] \in {0, 1}
    /\ (algorithm # "CLOCK" /\ Len(steps) >= 1) => DOMAIN Last(steps).metadata = {}
    /\ \A r \in 1..Len(results) :
           \A i \in 1..Len(results[r].steps) :
               DOMAIN results[r].steps[i].metadata =
                   IF results[r].algorithm = "CLOCK"
                   THEN {"clockPointer", "referenceBits"} ELSE {}

\* a CLOCK replacement that changed the bits and the pointer, after the three
\* other policies have returned their steps
C27_Witness ==
    /\ algorithm = "CLOCK"
    /\ frameCount >= 2
    /\ Len(results) = 3
    /\ Len(steps) >= 2
    /\ Last(steps).replacedPage # Null
    /\ Last(steps).metadata.referenceBits # steps[Len(steps) - 1].metadata.referenceBits
    /\ Last(steps).metadata.clockPointer # steps[Len(steps) - 1].metadata.clockPointer

C29_FifoQueueIsResidentSet ==
    (algorithm = "FIFO" /\ frameCount >= 1) =>
        /\ {fifoQueue[i] : i \in 1..Len(fifoQueue)} = Resident(currentFrames)
        /\ Len(fifoQueue) = Cardinality(Resident(currentFrames))
        /\ Len(fifoQueue) =
               Cardinality({k \in 0..(frameCount - 1) : currentFrames[k] # Null})
        /\ \A i \in 1..(Len(fifoQueue) - 1) :
               LoadStep(steps, Len(steps) + 1, fifoQueue[i])
                   < LoadStep(steps, Len(steps) + 1, fifoQueue[i + 1])
        /\ IsFull(currentFrames) =>
               /\ ~Shift(fifoQueue).undef
               /\ Includes(currentFrames, frameCount, Shift(fifoQueue).head)

\* a FIFO run on a full table after a replacement, where the head of the queue
\* is no longer the page in slot 0
C29_Witness ==
    /\ algorithm = "FIFO"
    /\ frameCount >= 2
    /\ IsFull(currentFrames)
    /\ \E i \in 1..Len(steps) : steps[i].replacedPage # Null
    /\ Len(fifoQueue) = frameCount
    /\ fifoQueue[1] # currentFrames[0]

\* the slots of a frame table that hold a page
Occupied(frames) == {k \in 0..(frameCount - 1) : frames[k] # Null}

\* C30: with frameCount >= 1 the frame table has the slots 0..frameCount-1,
\* the occupied ones are a prefix of them, and the most recent step left every
\* slot occupied that was occupied before it and evicted a page only from a
\* full table.  Every step is the most recent one in the state that follows it.
C30_OccupiedPrefix ==
    (frameCount >= 1 /\ pc \in {"running", "returned"}) =>
        /\ DOMAIN currentFrames = 0..(frameCount - 1)
        /\ \E n \in 0..frameCount : Occupied(currentFrames) = 0..(n - 1)
        /\ Len(steps) >= 1 =>
               LET before == PrevFrames(steps, Len(steps))
               IN  /\ Last(steps).frames = currentFrames
                   /\ Occupied(before) \subseteq Occupied(currentFrames)
                   /\ Cardinality(Occupied(before)) <= Cardinality(Occupied(currentFrames))
                   /\ Last(steps).replacedPage # Null => IsFull(before)

\* a run that took a hit while its last slot was still empty and has now
\* evicted a page
C30_Witness ==
    /\ frameCount >= 2
    /\ Len(steps) >= 1
    /\ Last(steps).replacedPage # Null
    /\ \E j \in 1..Len(steps) :
           /\ steps[j].status = "HIT"
           /\ steps[j].frames[frameCount - 1] = Null

\* no recorded step before step i has evicted a page
NoEvictionBefore(i) == \A j \in 1..(i - 1) : steps[j].replacedPage = Null

\* C31: under CLOCK, until the first eviction the pointer is the number of
\* occupied slots modulo frameCount, occupied slots have bit 1 and empty slots
\* bit 0; the first eviction starts with the pointer at 0 and every bit 1, and
\* evicts the page in slot 0.
C31_ClockBeforeFirstEviction ==
    (algorithm = "CLOCK" /\ frameCount >= 1) =>
        /\ NoEvictionBefore(Len(steps) + 1) =>
               /\ clockPointer = Cardinality(Occupied(currentFrames)) % frameCount
               /\ \A k \in 0..(frameCount - 1) :
                      referenceBits[k] = IF currentFrames[k] # Null THEN 1 ELSE 0
        /\ (Len(steps) >= 1 /\ Last(steps).replacedPage # Null
                /\ NoEvictionBefore(Len(steps))) =>
               /\ Len(steps) >= 2
               /\ steps[Len(steps) - 1].metadata.clockPointer = 0
               /\ \A k \in 0..(frameCount - 1) :
                      steps[Len(steps) - 1].metadata.referenceBits[k] = 1
               /\ Last(steps).replacedPage = PrevFrames(steps, Len(steps))[0]
               /\ currentFrames[0] = Last(steps).requestedPage

\* the first eviction of a CLOCK run with two or more frames, taken after a hit
\* on the page in slot 0, which is evicted all the same
C31_Witness ==
    /\ algorithm = "CLOCK"
    /\ frameCount >= 2
    /\ Len(steps) >= 2
    /\ Last(steps).replacedPage # Null
    /\ NoEvictionBefore(Len(steps))
    /\ \E j \in 1..(Len(steps) - 1) :
           /\ steps[j].status = "HIT"
           /\ steps[j].requestedPage = Last(steps).replacedPage

\* the distinct page values among the first n references
DistinctPages(n) == {pages[j] : j \in 1..n}

\* C32: with frameCount >= 1, under each policy a step that requests a page
\* for the first time is a FAULT and the fault count is at least the number of
\* distinct pages requested so far; when the whole sequence has at most
\* frameCount distinct pages the fault count equals that number, the most
\* recent step evicted nothing, and each returned result reports exactly the
\* number of distinct pages as totalFaults.
C32_FirstReferenceFaults ==
    (frameCount >= 1) =>
        LET n == Len(steps)
            all == Cardinality(DistinctPages(Len(pages)))
        IN  /\ (n >= 1 /\ pages[n] \notin DistinctPages(n - 1)) =>
                   steps[n].status = "FAULT"
            /\ faults >= Cardinality(DistinctPages(n))
            /\ \A r \in 1..Len(results) : results[r].totalFaults >= all
            /\ all <= frameCount =>
                   /\ faults = Cardinality(DistinctPages(n))
                   /\ n >= 1 => steps[n].replacedPage = Null
                   /\ \A r \in 1..Len(results) : results[r].totalFaults = all

\* all four policies have returned on a sequence with repeats whose two or
\* more distinct pages fit in the frames
C32_Witness ==
    /\ AllReturned
    /\ frameCount >= 2
    /\ Cardinality(DistinctPages(Len(pages))) >= 2
    /\ Cardinality(DistinctPages(Len(pages))) <= frameCount
    /\ Len(pages) > Cardinality(DistinctPages(Len(pages)))
    /\ \A r \in 1..4 : results[r].totalFaults = Cardinality(DistinctPages(Len(pages)))

\* ----------------------------------------------- playback (src/App.tsx)
\* line 11: the pages of the text the App starts with
DefaultPages ==
    <<7, 0, 1, 2, 0, 3, 0, 4, 2, 3, 0, 3, 1, 5, 2, 6, 7, 1, 8, 9, 4, 1, 5, 3, 2>>

DefaultText == SpacedText(DefaultPages)

\* texts typed into the reference field: pages, tokens the parse drops, blanks
PlaybackTexts ==
    SeqsUpTo({PageToken(0), <<"x">>, <<" ">>}, MaxLen) \cup {DefaultText}

\* line 26: !refString.trim(); a text with a comma is not blank
Blank(raw) == Len(raw) = 1 /\ Trim(raw[1]) = <<>>

\* lines 30 and 35 with src/utils/algorithms.ts lines 15, 34 and 192: the first
\* result has one step for each parsed page (parsedFrames is at least 1)
StepsLength(raw) == Len(parseReferenceString(raw))

\* line 88
maxSteps == IF stepsLength # Null THEN stepsLength - 1 ELSE 0

\* lines 51-56: the effect that runs after a render and lowers the cursor to
\* the last index of a result of n steps
ClampStep(c, n) == IF n # Null /\ c > n - 1 THEN n - 1 ELSE c

Min(a, b) == IF a <= b THEN a ELSE b

Max(a, b) == IF a >= b THEN a ELSE b

\* lines 25-40 followed by the effect of lines 51-56: handleSimulate on the
\* text raw while the cursor is c
handleSimulate(raw, c) ==
    IF Blank(raw)
    THEN /\ UNCHANGED <<stepsLength, isPlaying>>
         /\ currentStep' = ClampStep(c, stepsLength)
    ELSE /\ stepsLength' = StepsLength(raw)
         /\ isPlaying' = FALSE
         /\ currentStep' = ClampStep(c, StepsLength(raw))

\* runSimulation is not in progress between events
SimulationFixed ==
    UNCHANGED <<frameCount, algorithm, pc, pages, steps, hits, faults, currentFrames,
                fifoQueue, lruMap, referenceBits, clockPointer, sweep, results, other>>

\* lines 11-20: the App before its first simulation
InitPlayback ==
    /\ rawRefString = DefaultText
    /\ frameCount = ScenarioFrames
    /\ StartFrom(NoOther)
    /\ results = <<>>
    /\ other = NoOther
    /\ NoPlayback

\* line 201 and lines 43-48: the text is edited (or stays) and the debounce
\* timer runs handleSimulate; a change of the frame count re-runs it the same way
EditText ==
    /\ \E text \in PlaybackTexts :
        /\ rawRefString' = text
        /\ handleSimulate(text, currentStep)
    /\ SimulationFixed

\* line 223: the Start button
StartButton ==
    /\ handleSimulate(rawRefString, 0)
    /\ UNCHANGED rawRefString
    /\ SimulationFixed

\* line 232: the step controls are rendered once there are results
ControlsShown == stepsLength # Null

\* a step control puts the cursor to c; the effect of lines 51-56 follows
SetCurrentStep(c) ==
    /\ ControlsShown
    /\ currentStep' = ClampStep(c, stepsLength)
    /\ UNCHANGED <<rawRefString, stepsLength, isPlaying>>
    /\ SimulationFixed

\* line 270
Rewind == SetCurrentStep(0)

\* line 277
PreviousStep == SetCurrentStep(Max(0, currentStep - 1))

\* line 290
NextStep == SetCurrentStep(Min(maxSteps, currentStep + 1))

\* lines 299-304: the slider offers min 0 to max maxSteps, and 0 alone when
\* max is below min
Slider == \E v \in 0..Max(0, maxSteps) : SetCurrentStep(v)

\* line 284
TogglePlay ==
    /\ ControlsShown
    /\ isPlaying' = ~isPlaying
    /\ UNCHANGED <<rawRefString, stepsLength, currentStep>>
    /\ SimulationFixed

\* lines 59-70: one tick of the interval, which runs while isPlaying and
\* results.length > 0
Tick ==
    /\ isPlaying
    /\ stepsLength # Null
    /\ IF currentStep >= stepsLength - 1
       THEN /\ isPlaying' = FALSE
            /\ currentStep' = ClampStep(currentStep, stepsLength)
       ELSE /\ isPlaying' = isPlaying
            /\ currentStep' = ClampStep(currentStep + 1, stepsLength)
    /\ UNCHANGED <<rawRefString, stepsLength>>
    /\ SimulationFixed

NextPlayback ==
    \/ EditText
    \/ StartButton
    \/ Rewind
    \/ PreviousStep
    \/ NextStep
    \/ Slider
    \/ TogglePlay
    \/ Tick

SpecPlayback == InitPlayback /\ [][NextPlayback]_vars

\* C33 as stated: after any sequence of playback events the cursor is at least
\* 0 and at most max(0, steps.length - 1).  A result with zero steps puts it
\* to -1.
C33_AsStated ==
    /\ currentStep >= 0
    /\ currentStep <= (IF stepsLength = Null THEN 0 ELSE Max(0, stepsLength - 1))

====
